---- MODULE Spec2Model ----
(***************************************************************************)
(* TorneoExpress: the match ledger of src/index.js (web routes             *)
(* /registrar-partida, /deshacer, /eliminar-multiples and the API route    *)
(* /api/partidos/registrar-manual), over the two MongoDB collections       *)
(* tablaGeneral (player ledger) and historialPartidas (match history),     *)
(* and the tournament side of the API: the rules stored by                 *)
(* /api/torneos/crear, the enrolment of /api/torneos/inscribir and the     *)
(* ranking of /api/torneos/tabla/:id.                                      *)
(*                                                                         *)
(* Documents are records; a field a document does not have is a field      *)
(* outside its DOMAIN.  Form fields arrive as strings and are modelled as  *)
(* sequences of one-character strings, so that isNaN / parseInt / unary    *)
(* minus are computed from the characters as JavaScript computes them.     *)
(***************************************************************************)
EXTENDS Integers, Sequences, FiniteSets, TLC

VARIABLES
    tabla,      \* tablaCollection: _id -> document
    historial,  \* historialCollection: the set of its documents
    inscritos,  \* jugadores_inscritos of the tournament: id -> stats
    reloj,      \* inserts made so far: the source of _id and of fecha
    ultima,     \* the route of the last request that wrote to the store
    reglas,     \* reglas of the tournament document, SinTorneo before crear
    participaciones, \* participacionesCollection.find(): documents in order
    respuesta,  \* the answer to the last GET /api/torneos/tabla/:id
    torneo2,    \* the document of a second tournament: reglas and players
    pet,        \* requests in flight: slot -> route, next step and locals
    usuarios,   \* usuariosCollection: the set of its documents
    claves      \* the collection claves: clave -> document

\* What only the concurrent handlers, /api/auth/registro and
\* /api/torneos/editar-reglas write.
otros == <<torneo2, pet, usuarios, claves>>

vars == <<tabla, historial, inscritos, reloj, ultima,
          reglas, participaciones, respuesta, otros>>

\* What the ledger routes and the match recorder of the API never write.
lectura == <<reglas, participaciones, respuesta, otros>>

(***************************************************************************)
(* Bounds of the model and inputs of the requests.                         *)
(***************************************************************************)
\* Number of documents ever inserted in historialPartidas.
MaxPartidas == 3
\* Longest idsPartidas list of one /eliminar-multiples request.
MaxIds == 2

\* _id values of tablaGeneral (the names chosen in the form).
Jugadores == {"Ana", "Beto", "Caro"}
\* ganador, perdedor as submitted: one pair in both orders, a second rival
\* of the same player, and the same name twice.
Parejas ==
    { <<"Ana", "Beto">>, <<"Beto", "Ana">>, <<"Ana", "Caro">>,
      <<"Ana", "Ana">> }
\* ids of the players enrolled in the tournament (jugadores_inscritos.id).
Inscritos == {"j1", "j2"}
\* jugador1Id, jugador2Id of the API request body.
ParejasApi == { <<"j1", "j2">>, <<"j1", "j1">> }

\* mar1, mar2 as submitted: decimal digits, exponent notation, the empty
\* text and a text that is no number.
Marcadores ==
    { << <<"3","0">>, <<"1","2">> >>,
      << <<"1","e","2">>, <<>> >>,
      << <<"a","b","c">>, <<"1","2">> >>,
      << <<"3","0">>, <<"a","b","c">> >> }

\* puntaje1, puntaje2 of the API request body.
Puntajes == { << <<"2">>, <<"1">> >> }

(***************************************************************************)
(* JavaScript numbers: the integers and NaN.  NaN is a value outside the   *)
(* range any counter of the model reaches; arithmetic propagates it.       *)
(***************************************************************************)
NaN == -999999

Suma(x, d) == IF x = NaN \/ d = NaN THEN NaN ELSE x + d

Neg(x) == IF x = NaN THEN NaN ELSE 0 - x

\* x || 0 on a number: NaN and 0 are falsy.
OCero(x) == IF x = NaN THEN 0 ELSE x

Digitos == <<"0", "1", "2", "3", "4", "5", "6", "7", "8", "9">>

EsDigito(c) == \E d \in 1..10 : Digitos[d] = c

ValorDigito(c) == (CHOOSE d \in 1..10 : Digitos[d] = c) - 1

RECURSIVE LargoDigitos(_)
\* Length of the longest prefix of s made of decimal digits.
LargoDigitos(s) ==
    IF s = <<>> \/ ~EsDigito(Head(s)) THEN 0 ELSE 1 + LargoDigitos(Tail(s))

RECURSIVE ValorDecimal(_, _)
ValorDecimal(s, acc) ==
    IF s = <<>> THEN acc
    ELSE ValorDecimal(Tail(s), acc * 10 + ValorDigito(Head(s)))

RECURSIVE Pot10(_)
Pot10(n) == IF n = 0 THEN 1 ELSE 10 * Pot10(n - 1)

\* parseInt(s): optional sign, then the longest run of digits; what follows
\* the digits is ignored; no digit at all gives NaN.
ParseInt(s) ==
    LET neg    == s # <<>> /\ Head(s) = "-"
        cuerpo == IF neg THEN Tail(s) ELSE s
        n      == LargoDigitos(cuerpo)
        v      == ValorDecimal(SubSeq(cuerpo, 1, n), 0)
    IN  IF n = 0 THEN NaN ELSE IF neg THEN 0 - v ELSE v

\* Number(s), the conversion behind isNaN(s) and -s: the whole text must be
\* a numeric literal (sign, digits, optional exponent); the empty text is 0.
ToNumber(s) ==
    LET neg    == s # <<>> /\ Head(s) = "-"
        cuerpo == IF neg THEN Tail(s) ELSE s
        n      == LargoDigitos(cuerpo)
        v      == ValorDecimal(SubSeq(cuerpo, 1, n), 0)
        resto  == SubSeq(cuerpo, n + 1, Len(cuerpo))
        signo(x) == IF neg THEN 0 - x ELSE x
    IN  IF s = <<>> THEN 0
        ELSE IF n = 0 THEN NaN
        ELSE IF resto = <<>> THEN signo(v)
        ELSE IF /\ Head(resto) = "e"
                /\ Len(resto) > 1
                /\ LargoDigitos(Tail(resto)) = Len(resto) - 1
             THEN signo(v * Pot10(ValorDecimal(Tail(resto), 0)))
        ELSE NaN

IsNaN(s) == ToNumber(s) = NaN

(***************************************************************************)
(* The store.                                                              *)
(***************************************************************************)
\* Inc as a write of the increment that does not add to the value the
\* store holds: the variant under which C22 must fail.
Inc_SinLeer(doc, incs) ==
    [f \in (DOMAIN doc) \cup (DOMAIN incs) |->
        IF f \in DOMAIN incs THEN incs[f] ELSE doc[f]]

\* $inc of updateOne on one document: a field the document lacks is created
\* with the increment as its value.
Inc(doc, incs) ==
    [f \in (DOMAIN doc) \cup (DOMAIN incs) |->
        IF f \in DOMAIN incs
        THEN IF f \in DOMAIN doc THEN Suma(doc[f], incs[f]) ELSE incs[f]
        ELSE doc[f]]

\* tablaCollection.updateOne({_id: id}, {$inc: incs, $set: {nombre: id}},
\* {upsert}) : without upsert a missing _id matches nothing.
UpdateOne(col, id, incs, upsert) ==
    IF id \in DOMAIN col
    THEN [k \in DOMAIN col |-> IF k = id THEN Inc(col[k], incs) ELSE col[k]]
    ELSE IF upsert
         THEN [k \in (DOMAIN col) \cup {id} |->
                 IF k = id THEN Inc([nombre |-> id], incs) ELSE col[k]]
         ELSE col

\* The documents of the history written by the web route.
EsWeb(r) == "ganador" \in DOMAIN r

\* countDocuments({$or: [{ganador: g, perdedor: p}, {ganador: p, perdedor: g}]})
Enfrentamientos(h, g, p) ==
    Cardinality({r \in h :
        /\ EsWeb(r)
        /\ \/ (r.ganador = g /\ r.perdedor = p)
           \/ (r.ganador = p /\ r.perdedor = g)})

(***************************************************************************)
(* POST /api/torneos/crear: the rules it stores.                           *)
(***************************************************************************)
\* x || d on numbers: d when x is NaN or 0.
OPor(x, d) == IF x = NaN \/ x = 0 THEN d ELSE x

\* parseInt of a field of the request body; a field the body does not have
\* is undefined, and parseInt(undefined) is NaN.
CampoEntero(body, campo) ==
    IF campo \in DOMAIN body THEN ParseInt(body[campo]) ELSE NaN

\* nuevoTorneo.reglas.
ReglasCreadas(body) ==
    [juegosPorEnfrentamiento |-> OPor(CampoEntero(body, "juegos"), 1),
     carambolasMeta |-> OPor(CampoEntero(body, "carambolas"), 30),
     puntos_ganar |-> OPor(CampoEntero(body, "puntosGanar"), 3),
     puntos_perder |-> OPor(CampoEntero(body, "puntosPerder"), 0),
     top_clasificados |-> OPor(CampoEntero(body, "clasificados"), 8)]

\* The rule fields of the request body of crear: none given, all given,
\* and win-points and slots given as 0.
CuerposCrear ==
    { <<>>,
      [puntosGanar |-> <<"2">>, puntosPerder |-> <<"1">>,
       clasificados |-> <<"1">>],
      [puntosGanar |-> <<"0">>, puntosPerder |-> <<"2">>,
       clasificados |-> <<"0">>] }

\* No tournament document yet.
SinTorneo == [sin_torneo |-> TRUE]

\* No ranking requested yet.
SinRespuesta == [estado |-> 0]

\* A second tournament, created with explicit rule values and with one
\* player enrolled.
Torneo2 ==
    [reglas |-> ReglasCreadas([puntosGanar |-> <<"2">>,
                               puntosPerder |-> <<"1">>,
                               clasificados |-> <<"4">>]),
     jugadores_inscritos |->
        [k1 |-> [nombre |-> "Kira", telefono |-> "5520000001", puntos |-> 0,
                 partidosJugados |-> 0, victorias |-> 0, derrotas |-> 0,
                 carambolas |-> 0]]]

\* No request in flight, no user and no activation key; the second
\* tournament as created.
EnReposo ==
    /\ torneo2 = Torneo2
    /\ pet = <<>>
    /\ usuarios = {}
    /\ claves = <<>>

\* The ledger routes start on empty collections; the tournament of the
\* enrolled players was created without explicit rule values.
Init ==
    /\ reglas = ReglasCreadas(<<>>)
    /\ participaciones = <<>>
    /\ respuesta = SinRespuesta
    /\ EnReposo
    /\ tabla = <<>>
    /\ historial = {}
    /\ inscritos = [j \in Inscritos |->
                      [puntos |-> 0, partidosJugados |-> 0, victorias |-> 0,
                       derrotas |-> 0, carambolas |-> 0]]
    /\ reloj = 0
    /\ ultima = ""

(***************************************************************************)
(* POST /registrar-partida                                                 *)
(***************************************************************************)
\* The document inserted in historialPartidas; _id and fecha come from the
\* store and the clock, both strictly increasing from one insert to the next.
NuevaPartidaWeb(n, ganador, perdedor, mar1, mar2) ==
    [_id |-> n, ganador |-> ganador, marcadorGanador |-> mar1,
     perdedor |-> perdedor, marcadorPerdedor |-> mar2, fecha |-> n]

IncGanador(mar1) ==
    [puntos |-> 3, ganadas |-> 1, totalCarambolas |-> ParseInt(mar1),
     partidasJugadas |-> 1]

IncPerdedor(mar2) ==
    [puntos |-> 1, totalCarambolas |-> ParseInt(mar2), partidasJugadas |-> 1]

\* RespuestaPartida without the comparison of ganador and perdedor: the
\* variant under which C5 must fail.
RespuestaPartida_SinMismoJugador(h, ganador, perdedor, mar1, mar2) ==
    IF IsNaN(mar1) \/ IsNaN(mar2) THEN "marcador-invalido"
    ELSE IF Enfrentamientos(h, ganador, perdedor) >= 2 THEN "limite-alcanzado"
    ELSE "registrada"

\* The page the route answers with: one of the three rejections, checked in
\* this order, or the confirmation.
RespuestaPartida(h, ganador, perdedor, mar1, mar2) ==
    IF IsNaN(mar1) \/ IsNaN(mar2) THEN "marcador-invalido"
    ELSE IF ganador = perdedor THEN "mismo-jugador"
    ELSE IF Enfrentamientos(h, ganador, perdedor) >= 2 THEN "limite-alcanzado"
    ELSE "registrada"

\* The two upserts and the insert, on the ledger t and the history h, with n
\* the number of inserts made before.
PartidaRegistrada(t, h, n, ganador, perdedor, mar1, mar2) ==
    [tabla |-> UpdateOne(
                  UpdateOne(t, ganador, IncGanador(mar1), TRUE),
                  perdedor, IncPerdedor(mar2), TRUE),
     historial |-> h \cup {NuevaPartidaWeb(n + 1, ganador, perdedor, mar1, mar2)}]

\* RegistrarPartida with the writes made before the count of earlier
\* matches is looked at: the variant under which C6 must fail.
RegistrarPartida_EscribeAntesDelTope(ganador, perdedor, mar1, mar2) ==
    IF IsNaN(mar1) \/ IsNaN(mar2) \/ ganador = perdedor
    THEN UNCHANGED vars
    ELSE LET fin == PartidaRegistrada(tabla, historial, reloj,
                                      ganador, perdedor, mar1, mar2) IN
         /\ reloj < MaxPartidas
         /\ tabla' = fin.tabla
         /\ historial' = fin.historial
         /\ reloj' = reloj + 1
         /\ ultima' = "registrar-partida"
         /\ UNCHANGED <<inscritos, lectura>>

RegistrarPartida(ganador, perdedor, mar1, mar2) ==
    IF RespuestaPartida(historial, ganador, perdedor, mar1, mar2) # "registrada"
    THEN UNCHANGED vars
    ELSE LET fin == PartidaRegistrada(tabla, historial, reloj,
                                      ganador, perdedor, mar1, mar2) IN
         /\ reloj < MaxPartidas
         /\ tabla' = fin.tabla
         /\ historial' = fin.historial
         /\ reloj' = reloj + 1
         /\ ultima' = "registrar-partida"
         /\ UNCHANGED <<inscritos, lectura>>

(***************************************************************************)
(* Reversal of one history document, shared by /deshacer and               *)
(* /eliminar-multiples: both subtract the fixed points and the stored      *)
(* scores, without upsert, and delete the document.                        *)
(***************************************************************************)
DecGanador(partida) ==
    [puntos |-> -3, ganadas |-> -1, partidasJugadas |-> -1,
     totalCarambolas |-> Neg(ToNumber(partida.marcadorGanador))]

\* DecPerdedor copied from DecGanador with ganadas left in: the variant
\* under which C9 must fail.
DecPerdedor_ConGanadas(partida) ==
    [puntos |-> -1, ganadas |-> -1, partidasJugadas |-> -1,
     totalCarambolas |-> Neg(ToNumber(partida.marcadorPerdedor))]

DecPerdedor(partida) ==
    [puntos |-> -1, partidasJugadas |-> -1,
     totalCarambolas |-> Neg(ToNumber(partida.marcadorPerdedor))]

\* Revertir with upsert: true on both updates, as the recording route has
\* it: the variant under which C11 must fail.
Revertir_ConUpsert(t, partida) ==
    IF EsWeb(partida)
    THEN UpdateOne(
            UpdateOne(t, partida.ganador, DecGanador(partida), TRUE),
            partida.perdedor, DecPerdedor(partida), TRUE)
    ELSE t

\* A document without ganador / perdedor (written by the API route) gives
\* the filter {_id: undefined}, which matches no ledger document.
Revertir(t, partida) ==
    IF EsWeb(partida)
    THEN UpdateOne(
            UpdateOne(t, partida.ganador, DecGanador(partida), FALSE),
            partida.perdedor, DecPerdedor(partida), FALSE)
    ELSE t

(***************************************************************************)
(* POST /deshacer                                                          *)
(***************************************************************************)
\* UltimaPartida with the sort ascending: the variant under which C8 must
\* fail.
UltimaPartida_MasAntigua(h) == CHOOSE r \in h : \A o \in h : r.fecha <= o.fecha

\* findOne({}, {sort: {fecha: -1}}) on a history that is not empty.
UltimaPartida(h) == CHOOSE r \in h : \A o \in h : o.fecha <= r.fecha

PartidaDeshecha(t, h) ==
    IF h = {} THEN [tabla |-> t, historial |-> h]
    ELSE [tabla |-> Revertir(t, UltimaPartida(h)),
          historial |-> h \ {UltimaPartida(h)}]

Deshacer ==
    IF historial = {}
    THEN UNCHANGED vars
    ELSE LET fin == PartidaDeshecha(tabla, historial) IN
         /\ tabla' = fin.tabla
         /\ historial' = fin.historial
         /\ ultima' = "deshacer"
         /\ UNCHANGED <<inscritos, reloj, lectura>>

(***************************************************************************)
(* POST /eliminar-multiples                                                *)
(***************************************************************************)
\* One turn of the loop: findOne({_id: id}), and when found the two
\* updateOne and the deleteOne.
EliminarUna(st, id) ==
    LET halladas == {r \in st.historial : r._id = id} IN
    IF halladas = {} THEN st
    ELSE LET partida == CHOOSE r \in halladas : TRUE IN
         [tabla |-> Revertir(st.tabla, partida),
          historial |-> st.historial \ {partida}]

RECURSIVE EliminarTodas(_, _)
EliminarTodas(st, ids) ==
    IF ids = <<>> THEN st
    ELSE EliminarTodas(EliminarUna(st, Head(ids)), Tail(ids))

\* idsPartidas: absent (the empty list here) or up to MaxIds well-formed ids,
\* in the order of the form of /resultados-editar (latest first); an id may
\* name no document, and may come twice.
ListasDeIds ==
    {l \in UNION {[1..n -> 1..MaxPartidas] : n \in 0..MaxIds} :
        \A i \in 1..(Len(l) - 1) : l[i] >= l[i + 1]}

\* "Se han borrado ${idsPartidas.length} registros": the count the page
\* reports.
Reportados(idsPartidas) == Len(idsPartidas)

EliminarMultiples(idsPartidas) ==
    LET fin == EliminarTodas([tabla |-> tabla, historial |-> historial],
                             idsPartidas) IN
    IF idsPartidas = <<>> \/ fin.historial = historial
    THEN UNCHANGED vars
    ELSE /\ tabla' = fin.tabla
         /\ historial' = fin.historial
         /\ ultima' = "eliminar-multiples"
         /\ UNCHANGED <<inscritos, reloj, lectura>>

(***************************************************************************)
(* POST /api/partidos/registrar-manual                                     *)
(***************************************************************************)
\* actualizarJugador: $inc on the enrolled player whose id matches.
ActualizarJugador(ins, idJugador, puntosGanados, carambolasHechas, esGanador) ==
    IF idJugador \in DOMAIN ins
    THEN [ins EXCEPT ![idJugador] =
            Inc(@, [partidosJugados |-> 1, puntos |-> puntosGanados,
                    carambolas |-> carambolasHechas,
                    victorias |-> IF esGanador THEN 1 ELSE 0,
                    derrotas |-> IF esGanador THEN 0 ELSE 1])]
    ELSE ins

\* The status and error of the answer.
RespuestaManual(jugador1Id, jugador2Id) ==
    IF jugador1Id = jugador2Id THEN "400-mismo-jugador" ELSE "200-registrado"

NuevaPartidaManual(n, jugador1Id, jugador2Id, puntaje1, puntaje2) ==
    LET p1 == OCero(ParseInt(puntaje1))
        p2 == OCero(ParseInt(puntaje2))
    IN  [_id |-> n, torneo_id |-> "t1",
         jugador1 |-> jugador1Id, jugador2 |-> jugador2Id,
         puntaje1 |-> p1, puntaje2 |-> p2,
         ganadorId |-> IF p1 > p2 THEN jugador1Id
                       ELSE IF p2 > p1 THEN jugador2Id ELSE "null",
         fecha |-> n, tipo |-> "manual"]

RegistrarManual(jugador1Id, jugador2Id, puntaje1, puntaje2) ==
    IF RespuestaManual(jugador1Id, jugador2Id) # "200-registrado"
    THEN UNCHANGED vars
    ELSE LET nuevaPartida == NuevaPartidaManual(reloj + 1, jugador1Id,
                                jugador2Id, puntaje1, puntaje2)
             p1 == nuevaPartida.puntaje1
             p2 == nuevaPartida.puntaje2
             ganadorId == nuevaPartida.ganadorId
         IN
         /\ reloj < MaxPartidas
         /\ historial' = historial \cup {nuevaPartida}
         /\ reloj' = reloj + 1
         /\ inscritos' =
               IF ganadorId # "null"
               THEN ActualizarJugador(
                       ActualizarJugador(inscritos, jugador1Id,
                          IF jugador1Id = ganadorId THEN 3 ELSE 1, p1,
                          jugador1Id = ganadorId),
                       jugador2Id,
                       IF jugador2Id = ganadorId THEN 3 ELSE 1, p2,
                       jugador2Id = ganadorId)
               ELSE ActualizarJugador(
                       ActualizarJugador(inscritos, jugador1Id, 1, p1, FALSE),
                       jugador2Id, 1, p2, FALSE)
         /\ ultima' = "registrar-manual"
         /\ UNCHANGED <<tabla, lectura>>

Next ==
    \/ \E e \in Parejas, m \in Marcadores :
          RegistrarPartida(e[1], e[2], m[1], m[2])
    \/ Deshacer
    \/ \E ids \in ListasDeIds : EliminarMultiples(ids)
    \/ \E e \in ParejasApi, m \in Puntajes :
          RegistrarManual(e[1], e[2], m[1], m[2])

Spec == Init /\ [][Next]_vars

(***************************************************************************)
(* Reversal on a store that has lost ledger documents.  No route deletes   *)
(* from tablaGeneral, so such a store comes from outside the routes: the   *)
(* initial states are the stores /registrar-partida builds with up to      *)
(* MaxPrevias accepted matches, less the ledger documents of any set of    *)
(* players.                                                                *)
(***************************************************************************)
\* Matches recorded before the ledger documents were lost.
MaxPrevias == 2

RECURSIVE AlmacenesCon(_)
\* The stores after n accepted submissions of /registrar-partida.
AlmacenesCon(n) ==
    IF n = 0 THEN {[tabla |-> <<>>, historial |-> {}]}
    ELSE { PartidaRegistrada(x[1].tabla, x[1].historial, n - 1,
                             x[2][1], x[2][2], x[3][1], x[3][2]) :
             x \in { y \in AlmacenesCon(n - 1) \X Parejas \X Marcadores :
                       RespuestaPartida(y[1].historial, y[2][1], y[2][2],
                                        y[3][1], y[3][2]) = "registrada" } }

\* The ledger t without the documents of the players B.
SinFichas(t, B) == [j \in (DOMAIN t) \ B |-> t[j]]

InitReversa ==
    /\ \E n \in 0..MaxPrevias, B \in SUBSET Jugadores :
          \E a \in AlmacenesCon(n) :
             /\ tabla = SinFichas(a.tabla, B)
             /\ historial = a.historial
             /\ reloj = n
    /\ inscritos = [j \in Inscritos |->
                      [puntos |-> 0, partidosJugados |-> 0, victorias |-> 0,
                       derrotas |-> 0, carambolas |-> 0]]
    /\ ultima = ""
    /\ reglas = ReglasCreadas(<<>>)
    /\ participaciones = <<>>
    /\ respuesta = SinRespuesta
    /\ EnReposo

NextReversa ==
    \/ Deshacer
    \/ \E ids \in ListasDeIds : EliminarMultiples(ids)

SpecReversa == InitReversa /\ [][NextReversa]_vars

(***************************************************************************)
(* GET /api/torneos/tabla/:id                                              *)
(***************************************************************************)
\* Longest list of documents participacionesCollection.find() returns.
MaxParticipantes == 4

\* x || 0 on a field of a document: 0 when the field is absent, NaN or 0.
CampoOCero(doc, f) == IF f \in DOMAIN doc THEN OCero(doc[f]) ELSE 0

\* x || d on a field of a document.
CampoOPor(doc, f, d) == IF f \in DOMAIN doc THEN OPor(doc[f], d) ELSE d

\* b[f] !== a[f], an absent field being undefined.
CampoDistinto(b, a, f) ==
    IF f \in DOMAIN a /\ f \in DOMAIN b THEN b[f] # a[f]
    ELSE (f \in DOMAIN a) # (f \in DOMAIN b)

\* The comparator: negative when a goes first.
ordenarPorPuntos(a, b) ==
    LET statsA == a.stats
        statsB == b.stats
    IN  IF CampoDistinto(statsB, statsA, "puntos")
        THEN CampoOCero(statsB, "puntos") - CampoOCero(statsA, "puntos")
        ELSE CampoOCero(statsB, "ganadas") - CampoOCero(statsA, "ganadas")

RECURSIVE Insertar(_, _)
\* e put in its place in the sorted sequence s, after its equals.
Insertar(s, e) ==
    IF s = <<>> THEN <<e>>
    ELSE IF ordenarPorPuntos(s[Len(s)], e) > 0
         THEN Append(Insertar(SubSeq(s, 1, Len(s) - 1), e), s[Len(s)])
         ELSE Append(s, e)

RECURSIVE Ordenar(_)
\* Array.prototype.sort(ordenarPorPuntos): a stable sort.
Ordenar(s) ==
    IF s = <<>> THEN <<>>
    ELSE Insertar(Ordenar(SubSeq(s, 1, Len(s) - 1)), s[Len(s)])

\* Array.prototype.slice(desde, hasta), indices from 0.
Slice(s, desde, hasta) ==
    SubSeq(s, desde + 1, IF hasta < Len(s) THEN hasta ELSE Len(s))

\* limite, corte and rep as the route reads them from torneo.reglas.
Limite(rg) == CampoOPor(rg, "limite_partidas", 32)

Corte(rg) == CampoOPor(rg, "top_clasificados", 8)

Rep(rg) == CampoOPor(rg, "reemplazos", 2)

Elegible(p, rg) == CampoOCero(p.stats, "partidasJugadas") >= Limite(rg)

\* rankingFinal without grupoSobrantes in the concatenation: the variant
\* under which C13 must fail.
RankingFinal_SinSobrantes(participantes, rg) ==
    LET EsElegible(p) == Elegible(p, rg)
        NoElegible(p) == ~Elegible(p, rg)
        elegibles == Ordenar(SelectSeq(participantes, EsElegible))
        resto == Ordenar(SelectSeq(participantes, NoElegible))
        grupoClasificados == Slice(elegibles, 0, Corte(rg))
        grupoReemplazos == Slice(elegibles, Corte(rg), Corte(rg) + Rep(rg))
    IN  grupoClasificados \o grupoReemplazos \o resto

\* rankingFinal.
RankingFinal(participantes, rg) ==
    LET EsElegible(p) == Elegible(p, rg)
        NoElegible(p) == ~Elegible(p, rg)
        elegibles == Ordenar(SelectSeq(participantes, EsElegible))
        resto == Ordenar(SelectSeq(participantes, NoElegible))
        grupoClasificados == Slice(elegibles, 0, Corte(rg))
        grupoReemplazos == Slice(elegibles, Corte(rg), Corte(rg) + Rep(rg))
        grupoSobrantes == Slice(elegibles, Corte(rg) + Rep(rg), Len(elegibles))
    IN  grupoClasificados \o grupoReemplazos \o grupoSobrantes \o resto

\* One row of the answer; promedio is left out.
Fila(p, index, rg) ==
    [posicion |-> index + 1,
     nombre |-> p.nombre_display,
     stats |-> p.stats,
     esClasificado |-> index < Corte(rg),
     esReemplazo |-> index >= Corte(rg) /\ index < Corte(rg) + Rep(rg)]

\* The answer of the route.
RespuestaTabla(participantes, rg) ==
    IF rg = SinTorneo THEN [estado |-> 404]
    ELSE LET rankingFinal == RankingFinal(participantes, rg) IN
         [estado |-> 200,
          reglas |-> [limite |-> Limite(rg), corte |-> Corte(rg),
                      corteReemplazos |-> Corte(rg) + Rep(rg)],
          ranking |-> [i \in 1..Len(rankingFinal) |->
                          Fila(rankingFinal[i], i - 1, rg)]]

TablaTorneo ==
    /\ respuesta' = RespuestaTabla(participaciones, reglas)
    /\ UNCHANGED <<tabla, historial, inscritos, reloj, ultima,
                   reglas, participaciones, otros>>

(***************************************************************************)
(* The ranking as a function of the documents it reads.  No route writes   *)
(* participacionesCollection: its documents, and rules with the fields the *)
(* ranking reads, are drawn here.                                          *)
(***************************************************************************)
\* Documents of participaciones: stats with points, wins and games, points
\* or wins absent in some.
Fichas ==
    { [nombre_display |-> "P1",
       stats |-> [puntos |-> 9, ganadas |-> 3, partidasJugadas |-> 3]],
      [nombre_display |-> "P2",
       stats |-> [puntos |-> 3, ganadas |-> 0, partidasJugadas |-> 3]],
      [nombre_display |-> "P3",
       stats |-> [puntos |-> 3, ganadas |-> 1, partidasJugadas |-> 2]],
      [nombre_display |-> "P4",
       stats |-> [ganadas |-> 0, partidasJugadas |-> 3]],
      [nombre_display |-> "P5",
       stats |-> [puntos |-> 0, ganadas |-> 2, partidasJugadas |-> 3]],
      [nombre_display |-> "P6",
       stats |-> [puntos |-> 5, partidasJugadas |-> 1]] }

\* The lists of up to MaxParticipantes different documents.
ListasDeFichas ==
    {l \in UNION {[1..n -> Fichas] : n \in 0..MaxParticipantes} :
        \A i \in 1..Len(l), j \in 1..Len(l) : i # j => l[i] # l[j]}

\* reglas as stored: by crear without rule values, and with the three
\* fields the ranking reads.
ReglasGuardadas ==
    { ReglasCreadas(<<>>),
      [limite_partidas |-> 3, top_clasificados |-> 1, reemplazos |-> 1],
      [limite_partidas |-> 0, top_clasificados |-> 1, reemplazos |-> 1],
      [limite_partidas |-> 2, top_clasificados |-> 2, reemplazos |-> 0] }

InitRanking ==
    /\ participaciones \in ListasDeFichas
    /\ reglas \in ReglasGuardadas
    /\ respuesta = SinRespuesta
    /\ EnReposo
    /\ tabla = <<>>
    /\ historial = {}
    /\ inscritos = <<>>
    /\ reloj = 0
    /\ ultima = ""

NextRanking == TablaTorneo

SpecRanking == InitRanking /\ [][NextRanking]_vars

(***************************************************************************)
(* The tournament from its creation: /api/torneos/crear,                   *)
(* /api/torneos/inscribir, the match recorder and the ranking.  The model  *)
(* follows one tournament, t1, and the two enrolments that get the ids of  *)
(* Inscritos.                                                              *)
(***************************************************************************)
\* nombre and telefono of the request body of inscribir.
Nombres == {"Uno", "Dos"}

Telefonos == {"5510000001", "5510000002"}

\* POST /api/torneos/crear with nombre, sede and precio given.
CrearTorneo(body) ==
    /\ reglas = SinTorneo
    /\ reglas' = ReglasCreadas(body)
    /\ inscritos' = <<>>
    /\ UNCHANGED <<tabla, historial, reloj, ultima, participaciones,
                   respuesta, otros>>

\* The answer of inscribir: 404, 400 for a telefono already enrolled, 200.
RespuestaInscribir(ins, rg, telefono) ==
    IF rg = SinTorneo THEN "404-torneo"
    ELSE IF \E j \in DOMAIN ins : ins[j].telefono = telefono
         THEN "400-ya-inscrito"
    ELSE "200-inscrito"

\* nuevoJugador, without inscritoEn.
NuevoJugador(nombre, telefono) ==
    [nombre |-> nombre, telefono |-> telefono, puntos |-> 0,
     partidosJugados |-> 0, victorias |-> 0, derrotas |-> 0, carambolas |-> 0]

\* new ObjectId().toString(): the ids of Inscritos, in this order.
IdsNuevos == <<"j1", "j2">>

\* POST /api/torneos/inscribir with nombre and telefono given.
Inscribir(nombre, telefono) ==
    IF RespuestaInscribir(inscritos, reglas, telefono) # "200-inscrito"
    THEN UNCHANGED vars
    ELSE LET id == IdsNuevos[Cardinality(DOMAIN inscritos) + 1] IN
         /\ Cardinality(DOMAIN inscritos) < Len(IdsNuevos)
         /\ inscritos' = [k \in (DOMAIN inscritos) \cup {id} |->
                            IF k = id THEN NuevoJugador(nombre, telefono)
                            ELSE inscritos[k]]
         /\ UNCHANGED <<tabla, historial, reloj, ultima, lectura>>

InitTorneo ==
    /\ reglas = SinTorneo
    /\ participaciones = <<>>
    /\ respuesta = SinRespuesta
    /\ EnReposo
    /\ tabla = <<>>
    /\ historial = {}
    /\ inscritos = <<>>
    /\ reloj = 0
    /\ ultima = ""

NextTorneo ==
    \/ \E body \in CuerposCrear : CrearTorneo(body)
    \/ \E nombre \in Nombres, telefono \in Telefonos :
          Inscribir(nombre, telefono)
    \/ \E e \in ParejasApi, m \in Puntajes :
          reglas # SinTorneo /\ RegistrarManual(e[1], e[2], m[1], m[2])
    \/ TablaTorneo

SpecTorneo == InitTorneo /\ [][NextTorneo]_vars

(***************************************************************************)
(* POST /api/torneos/editar-reglas                                         *)
(***************************************************************************)
\* parseFloat(s) on the texts of the model: sign, digits and an optional
\* exponent; what follows is ignored; no digit at all gives NaN.
ParseFloat(s) ==
    LET neg    == s # <<>> /\ Head(s) = "-"
        cuerpo == IF neg THEN Tail(s) ELSE s
        n      == LargoDigitos(cuerpo)
        v      == ValorDecimal(SubSeq(cuerpo, 1, n), 0)
        resto  == SubSeq(cuerpo, n + 1, Len(cuerpo))
        ne     == IF resto # <<>> /\ Head(resto) = "e"
                  THEN LargoDigitos(Tail(resto)) ELSE 0
        m      == IF ne = 0 THEN v
                  ELSE v * Pot10(ValorDecimal(SubSeq(resto, 2, ne + 1), 0))
    IN  IF n = 0 THEN NaN ELSE IF neg THEN 0 - m ELSE m

\* if (body.campo): the field is there and is not the empty text.
Dado(body, campo) == campo \in DOMAIN body /\ body[campo] # <<>>

\* A variant that also writes the win-points.
ActualizacionReglas_ConPuntos(body) ==
    [f \in {"puntos_ganar"}
           \cup (IF Dado(body, "nuevoPorcentaje")
                 THEN {"minimoPartidasPorcentaje"} ELSE {})
           \cup (IF Dado(body, "nuevosClasificados")
                 THEN {"top_clasificados"} ELSE {}) |->
        IF f = "minimoPartidasPorcentaje"
        THEN ParseFloat(body.nuevoPorcentaje)
        ELSE IF f = "top_clasificados" THEN ParseInt(body.nuevosClasificados)
        ELSE 3]

\* updateData, with the prefix reglas. left out of the field names.
ActualizacionReglas(body) ==
    [f \in (IF Dado(body, "nuevoPorcentaje")
            THEN {"minimoPartidasPorcentaje"} ELSE {})
           \cup (IF Dado(body, "nuevosClasificados")
                 THEN {"top_clasificados"} ELSE {}) |->
        IF f = "minimoPartidasPorcentaje"
        THEN ParseFloat(body.nuevoPorcentaje)
        ELSE ParseInt(body.nuevosClasificados)]

\* $set of updateOne on the embedded document reglas.
Set(doc, cambios) ==
    [f \in (DOMAIN doc) \cup (DOMAIN cambios) |->
        IF f \in DOMAIN cambios THEN cambios[f] ELSE doc[f]]

\* req.usuario.rol.
Roles == {"organizador", "jugador"}

\* torneoId of the request body: the two tournaments.
TorneoIds == {"t1", "t2"}

\* nuevoPorcentaje, nuevosClasificados of the request body: none, a
\* percentage with slots that are no number, and an empty percentage with
\* slots.
CuerposEditar ==
    { <<>>,
      [nuevoPorcentaje |-> <<"5", "0">>,
       nuevosClasificados |-> <<"a", "b", "c">>],
      [nuevoPorcentaje |-> <<>>, nuevosClasificados |-> <<"2">>] }

\* The whole handler; a $set with no field changes nothing, whether the
\* store accepts it or answers with an error.
EditarReglas(rol, torneoId, body) ==
    IF rol # "organizador" THEN UNCHANGED vars
    ELSE IF torneoId = "t1"
    THEN /\ reglas' = IF reglas = SinTorneo THEN reglas
                      ELSE Set(reglas, ActualizacionReglas(body))
         /\ UNCHANGED <<tabla, historial, inscritos, reloj, ultima,
                        participaciones, respuesta, otros>>
    ELSE /\ torneo2' = [torneo2 EXCEPT
                          !.reglas = Set(@, ActualizacionReglas(body))]
         /\ UNCHANGED <<tabla, historial, inscritos, reloj, ultima,
                        reglas, participaciones, respuesta,
                        pet, usuarios, claves>>

\* The tournament routes that write, and the override.
NextReglas ==
    \/ \E body \in CuerposCrear : CrearTorneo(body)
    \/ \E nombre \in Nombres, telefono \in Telefonos :
          Inscribir(nombre, telefono)
    \/ \E e \in ParejasApi, m \in Puntajes :
          reglas # SinTorneo /\ RegistrarManual(e[1], e[2], m[1], m[2])
    \/ \E rol \in Roles, torneoId \in TorneoIds, body \in CuerposEditar :
          EditarReglas(rol, torneoId, body)

SpecReglas == InitTorneo /\ [][NextReglas]_vars

(***************************************************************************)
(* The web routes as the server runs them: a handler gives way to the      *)
(* other handlers at every await, so each store operation is one step and  *)
(* the steps of two requests interleave.  pet holds, for every request in  *)
(* flight, its route, the operation it is about to make and its locals.    *)
(***************************************************************************)
\* Two requests in flight at most.
Ranuras == {1, 2}

\* ganador, perdedor, mar1, mar2 of the concurrent submissions: one pair in
\* both orders, with scores that are decimal integers.
ParejasEnCurso == { <<"Ana", "Beto">>, <<"Beto", "Ana">> }

MarcadoresEnCurso == { << <<"3", "0">>, <<"1", "2">> >> }

\* idsPartidas of the concurrent bulk deletes: one id.
ListasEnCurso == { <<1>>, <<2>> }

Poner(p, r, v) == [k \in (DOMAIN p) \cup {r} |-> IF k = r THEN v ELSE p[k]]

Quitar(p, r) == [k \in (DOMAIN p) \ {r} |-> p[k]]

EnCurso(r, ruta, paso) ==
    r \in DOMAIN pet /\ pet[r].ruta = ruta /\ pet[r].paso = paso

\* The requests to /registrar-partida that passed the checks and have not
\* inserted yet.
RegistrosEnCurso == {r \in DOMAIN pet : pet[r].ruta = "registrar-partida"}

\* /registrar-partida up to its first write: the two checks on the body and
\* countDocuments with the comparison to 2.
LlegaRegistrar(r, ganador, perdedor, mar1, mar2) ==
    /\ r \notin DOMAIN pet
    /\ reloj + Cardinality(RegistrosEnCurso) < MaxPartidas
    /\ IF RespuestaPartida(historial, ganador, perdedor, mar1, mar2)
              # "registrada"
       THEN UNCHANGED vars
       ELSE /\ pet' = Poner(pet, r,
                        [ruta |-> "registrar-partida", paso |-> "ganador",
                         ganador |-> ganador, perdedor |-> perdedor,
                         mar1 |-> mar1, mar2 |-> mar2])
            /\ UNCHANGED <<tabla, historial, inscritos, reloj, ultima,
                           reglas, participaciones, respuesta,
                           torneo2, usuarios, claves>>

\* await tablaCollection.updateOne({_id: ganador}, ..., {upsert: true})
ActualizarGanador(r) ==
    /\ EnCurso(r, "registrar-partida", "ganador")
    /\ tabla' = UpdateOne(tabla, pet[r].ganador, IncGanador(pet[r].mar1), TRUE)
    /\ pet' = [pet EXCEPT ![r].paso = "perdedor"]
    /\ ultima' = "registrar-partida"
    /\ UNCHANGED <<historial, inscritos, reloj, reglas, participaciones,
                   respuesta, torneo2, usuarios, claves>>

\* await tablaCollection.updateOne({_id: perdedor}, ..., {upsert: true})
ActualizarPerdedor(r) ==
    /\ EnCurso(r, "registrar-partida", "perdedor")
    /\ tabla' = UpdateOne(tabla, pet[r].perdedor, IncPerdedor(pet[r].mar2),
                          TRUE)
    /\ pet' = [pet EXCEPT ![r].paso = "historial"]
    /\ ultima' = "registrar-partida"
    /\ UNCHANGED <<historial, inscritos, reloj, reglas, participaciones,
                   respuesta, torneo2, usuarios, claves>>

\* GuardarHistorial with the count looked at again before the insert: the
\* variant under which C23 must fail.
GuardarHistorial_ConTope(r) ==
    /\ EnCurso(r, "registrar-partida", "historial")
    /\ Enfrentamientos(historial, pet[r].ganador, pet[r].perdedor) < 2
    /\ historial' = historial \cup
          {NuevaPartidaWeb(reloj + 1, pet[r].ganador, pet[r].perdedor,
                           pet[r].mar1, pet[r].mar2)}
    /\ reloj' = reloj + 1
    /\ pet' = Quitar(pet, r)
    /\ ultima' = "registrar-partida"
    /\ UNCHANGED <<tabla, inscritos, reglas, participaciones, respuesta,
                   torneo2, usuarios, claves>>

\* await historialCollection.insertOne(...) and the answer.
GuardarHistorial(r) ==
    /\ EnCurso(r, "registrar-partida", "historial")
    /\ historial' = historial \cup
          {NuevaPartidaWeb(reloj + 1, pet[r].ganador, pet[r].perdedor,
                           pet[r].mar1, pet[r].mar2)}
    /\ reloj' = reloj + 1
    /\ pet' = Quitar(pet, r)
    /\ ultima' = "registrar-partida"
    /\ UNCHANGED <<tabla, inscritos, reglas, participaciones, respuesta,
                   torneo2, usuarios, claves>>

\* /deshacer up to its first write: findOne({}, {sort: {fecha: -1}}).
LlegaDeshacer(r) ==
    /\ r \notin DOMAIN pet
    /\ IF historial = {}
       THEN UNCHANGED vars
       ELSE /\ pet' = Poner(pet, r,
                        [ruta |-> "deshacer", paso |-> "ganador",
                         partida |-> UltimaPartida(historial)])
            /\ UNCHANGED <<tabla, historial, inscritos, reloj, ultima,
                           reglas, participaciones, respuesta,
                           torneo2, usuarios, claves>>

\* /eliminar-multiples with a list that is not empty, up to its first
\* findOne.
LlegaEliminar(r, idsPartidas) ==
    /\ r \notin DOMAIN pet
    /\ idsPartidas # <<>>
    /\ pet' = Poner(pet, r,
                 [ruta |-> "eliminar-multiples", paso |-> "buscar",
                  ids |-> idsPartidas])
    /\ UNCHANGED <<tabla, historial, inscritos, reloj, ultima,
                   reglas, participaciones, respuesta,
                   torneo2, usuarios, claves>>

\* The loop of /eliminar-multiples after the turn for Head(ids).
SiguienteId(r) ==
    IF Len(pet[r].ids) = 1 THEN Quitar(pet, r)
    ELSE Poner(pet, r, [ruta |-> "eliminar-multiples", paso |-> "buscar",
                        ids |-> Tail(pet[r].ids)])

\* await historialCollection.findOne({_id: id}) and if (partida).
BuscarPartida(r) ==
    /\ EnCurso(r, "eliminar-multiples", "buscar")
    /\ LET halladas == {x \in historial : x._id = Head(pet[r].ids)} IN
       pet' = IF halladas = {} THEN SiguienteId(r)
              ELSE Poner(pet, r,
                     [ruta |-> "eliminar-multiples", paso |-> "ganador",
                      ids |-> pet[r].ids,
                      partida |-> CHOOSE x \in halladas : TRUE])
    /\ UNCHANGED <<tabla, historial, inscritos, reloj, ultima,
                   reglas, participaciones, respuesta,
                   torneo2, usuarios, claves>>

Reversiones == {"deshacer", "eliminar-multiples"}

\* await tablaCollection.updateOne({_id: ganador}, {$inc: ...}) of either
\* reversal, for the document the handler read.
RestarGanador(r) ==
    /\ \E ruta \in Reversiones : EnCurso(r, ruta, "ganador")
    /\ tabla' = IF EsWeb(pet[r].partida)
                THEN UpdateOne(tabla, pet[r].partida.ganador,
                               DecGanador(pet[r].partida), FALSE)
                ELSE tabla
    /\ pet' = [pet EXCEPT ![r].paso = "perdedor"]
    /\ ultima' = pet[r].ruta
    /\ UNCHANGED <<historial, inscritos, reloj, reglas, participaciones,
                   respuesta, torneo2, usuarios, claves>>

\* await tablaCollection.updateOne({_id: perdedor}, {$inc: ...})
RestarPerdedor(r) ==
    /\ \E ruta \in Reversiones : EnCurso(r, ruta, "perdedor")
    /\ tabla' = IF EsWeb(pet[r].partida)
                THEN UpdateOne(tabla, pet[r].partida.perdedor,
                               DecPerdedor(pet[r].partida), FALSE)
                ELSE tabla
    /\ pet' = [pet EXCEPT ![r].paso = "borrar"]
    /\ ultima' = pet[r].ruta
    /\ UNCHANGED <<historial, inscritos, reloj, reglas, participaciones,
                   respuesta, torneo2, usuarios, claves>>

\* await historialCollection.deleteOne({_id}): a document already deleted
\* matches nothing.
BorrarPartida(r) ==
    /\ \E ruta \in Reversiones : EnCurso(r, ruta, "borrar")
    /\ historial' = {x \in historial : x._id # pet[r].partida._id}
    /\ pet' = IF pet[r].ruta = "deshacer" THEN Quitar(pet, r)
              ELSE SiguienteId(r)
    /\ ultima' = pet[r].ruta
    /\ UNCHANGED <<tabla, inscritos, reloj, reglas, participaciones,
                   respuesta, torneo2, usuarios, claves>>

\* Concurrent submissions to /registrar-partida.
NextRegistros ==
    \E r \in Ranuras :
        \/ \E e \in ParejasEnCurso, m \in MarcadoresEnCurso :
              LlegaRegistrar(r, e[1], e[2], m[1], m[2])
        \/ ActualizarGanador(r)
        \/ ActualizarPerdedor(r)
        \/ GuardarHistorial(r)

SpecRegistros == Init /\ [][NextRegistros]_vars

\* Concurrent submissions, undos and bulk deletes.
NextReversiones ==
    \E r \in Ranuras :
        \/ \E e \in ParejasEnCurso, m \in MarcadoresEnCurso :
              LlegaRegistrar(r, e[1], e[2], m[1], m[2])
        \/ ActualizarGanador(r)
        \/ ActualizarPerdedor(r)
        \/ GuardarHistorial(r)
        \/ LlegaDeshacer(r)
        \/ \E ids \in ListasEnCurso : LlegaEliminar(r, ids)
        \/ BuscarPartida(r)
        \/ RestarGanador(r)
        \/ RestarPerdedor(r)
        \/ BorrarPartida(r)

SpecReversiones == Init /\ [][NextReversiones]_vars

(***************************************************************************)
(* Store operations that fail.  /registrar-partida has no try / catch: an  *)
(* await that rejects ends the handler there.  The catch of                *)
(* /api/partidos/registrar-manual logs and answers 500.  Neither undoes    *)
(* the writes already made.  A write that fails changes no document.  A    *)
(* request that failed keeps its slot, at the step "fallo": the model      *)
(* follows as many failures as there are slots.                            *)
(***************************************************************************)
\* puntosGanados and esGanador of the calls to actualizarJugador.
PuntosDe(partida, id) ==
    IF partida.ganadorId # "null" /\ partida.ganadorId = id THEN 3 ELSE 1

\* /api/partidos/registrar-manual up to its first update: the checks on the
\* body and the insert in the history.
InsertarManual(r, jugador1Id, jugador2Id, puntaje1, puntaje2) ==
    /\ r \notin DOMAIN pet
    /\ reloj + Cardinality(RegistrosEnCurso) < MaxPartidas
    /\ IF RespuestaManual(jugador1Id, jugador2Id) # "200-registrado"
       THEN UNCHANGED vars
       ELSE LET nuevaPartida == NuevaPartidaManual(reloj + 1, jugador1Id,
                                   jugador2Id, puntaje1, puntaje2) IN
            /\ historial' = historial \cup {nuevaPartida}
            /\ reloj' = reloj + 1
            /\ pet' = Poner(pet, r,
                        [ruta |-> "registrar-manual", paso |-> "jugador1",
                         partida |-> nuevaPartida])
            /\ ultima' = "registrar-manual"
            /\ UNCHANGED <<tabla, inscritos, reglas, participaciones,
                           respuesta, torneo2, usuarios, claves>>

\* await actualizarJugador(jugador1Id, ...)
ActualizarJugador1(r) ==
    /\ EnCurso(r, "registrar-manual", "jugador1")
    /\ LET partida == pet[r].partida IN
       inscritos' = ActualizarJugador(inscritos, partida.jugador1,
                       PuntosDe(partida, partida.jugador1), partida.puntaje1,
                       partida.ganadorId = partida.jugador1)
    /\ pet' = [pet EXCEPT ![r].paso = "jugador2"]
    /\ ultima' = "registrar-manual"
    /\ UNCHANGED <<tabla, historial, reloj, reglas, participaciones,
                   respuesta, torneo2, usuarios, claves>>

\* await actualizarJugador(jugador2Id, ...) and the answer.
ActualizarJugador2(r) ==
    /\ EnCurso(r, "registrar-manual", "jugador2")
    /\ LET partida == pet[r].partida IN
       inscritos' = ActualizarJugador(inscritos, partida.jugador2,
                       PuntosDe(partida, partida.jugador2), partida.puntaje2,
                       partida.ganadorId = partida.jugador2)
    /\ pet' = Quitar(pet, r)
    /\ ultima' = "registrar-manual"
    /\ UNCHANGED <<tabla, historial, reloj, reglas, participaciones,
                   respuesta, torneo2, usuarios, claves>>

Registros == {"registrar-partida", "registrar-manual"}

\* Falla with the winner's update taken back: the variant under which C24
\* must fail.
Falla_ConReversion(r) ==
    /\ r \in DOMAIN pet
    /\ pet[r].ruta \in Registros
    /\ pet[r].paso # "fallo"
    /\ tabla' = IF pet[r].ruta = "registrar-partida" /\ pet[r].paso # "ganador"
                THEN UpdateOne(tabla, pet[r].ganador,
                        [puntos |-> -3, ganadas |-> -1, partidasJugadas |-> -1,
                         totalCarambolas |-> Neg(ParseInt(pet[r].mar1))],
                        FALSE)
                ELSE tabla
    /\ pet' = [pet EXCEPT ![r].paso = "fallo"]
    /\ UNCHANGED <<historial, inscritos, reloj, ultima, reglas,
                   participaciones, respuesta, torneo2, usuarios, claves>>

\* The store operation a recording handler is about to make fails.
Falla(r) ==
    /\ r \in DOMAIN pet
    /\ pet[r].ruta \in Registros
    /\ pet[r].paso # "fallo"
    /\ pet' = [pet EXCEPT ![r].paso = "fallo"]
    /\ UNCHANGED <<tabla, historial, inscritos, reloj, ultima, reglas,
                   participaciones, respuesta, torneo2, usuarios, claves>>

\* The two recording routes, with store operations that may fail.
NextFallas ==
    \E r \in Ranuras :
        \/ \E e \in ParejasEnCurso, m \in MarcadoresEnCurso :
              LlegaRegistrar(r, e[1], e[2], m[1], m[2])
        \/ ActualizarGanador(r)
        \/ ActualizarPerdedor(r)
        \/ GuardarHistorial(r)
        \/ \E e \in ParejasApi, m \in Puntajes :
              InsertarManual(r, e[1], e[2], m[1], m[2])
        \/ ActualizarJugador1(r)
        \/ ActualizarJugador2(r)
        \/ Falla(r)

SpecFallas == Init /\ [][NextFallas]_vars

(***************************************************************************)
(* GET /api/admin/migrar-datos/:torneoId                                   *)
(***************************************************************************)
\* tablaCollection.find({}).toArray(): the documents in the order of this
\* list of their _id.
OrdenDeTabla == <<"Ana", "Beto", "Caro">>

\* new ObjectId().toString() of the map, one per ledger document.
IdsMigrados == <<"m1", "m2", "m3">>

\* parseInt(j.campo) || 0 on a ledger document: an absent field and NaN
\* give 0.
EnteroOCero(doc, campo) ==
    IF campo \in DOMAIN doc THEN OCero(doc[campo]) ELSE 0

\* One element of jugadoresMapeados.  It has no derrotas, and reads the
\* games from the field jugados.
JugadorMapeado(j) ==
    [nombre |-> j.nombre,
     telefono |-> IF "telefono" \in DOMAIN j THEN j.telefono
                  ELSE "0000000000",
     puntos |-> EnteroOCero(j, "puntos"),
     partidosJugados |-> EnteroOCero(j, "jugados"),
     victorias |-> EnteroOCero(j, "ganadas"),
     carambolas |-> 0]

\* jugadoresMapeados, under their new ids.
JugadoresMapeados(t) ==
    LET viejos == SelectSeq(OrdenDeTabla, LAMBDA n : n \in DOMAIN t) IN
    [id \in {IdsMigrados[k] : k \in 1..Len(viejos)} |->
        JugadorMapeado(
            t[viejos[CHOOSE k \in 1..Len(viejos) : IdsMigrados[k] = id]])]

\* The whole handler: nothing is written for an empty ledger.
MigrarDatos ==
    IF tabla = <<>> \/ reglas = SinTorneo
    THEN UNCHANGED vars
    ELSE /\ inscritos' = JugadoresMapeados(tabla)
         /\ ultima' = "migrar-datos"
         /\ UNCHANGED <<tabla, historial, reloj, lectura>>

\* jugador1Id, jugador2Id of the recorder after a migration: any two
\* players of the tournament.
RegistrarEntreInscritos ==
    \E a \in DOMAIN inscritos, b \in DOMAIN inscritos, m \in Puntajes :
        a # b /\ RegistrarManual(a, b, m[1], m[2])

\* The tournament exists; the ledger of the web routes holds what up to
\* MaxPrevias accepted submissions left in it.
InitMigracion ==
    /\ \E n \in 0..MaxPrevias :
          \E a \in AlmacenesCon(n) :
             /\ tabla = a.tabla
             /\ historial = a.historial
             /\ reloj = n
    /\ inscritos = <<>>
    /\ ultima = ""
    /\ reglas = ReglasCreadas(<<>>)
    /\ participaciones = <<>>
    /\ respuesta = SinRespuesta
    /\ EnReposo

NextMigracion ==
    \/ \E nombre \in Nombres, telefono \in Telefonos :
          Inscribir(nombre, telefono)
    \/ RegistrarEntreInscritos
    \/ MigrarDatos

SpecMigracion == InitMigracion /\ [][NextMigracion]_vars

(***************************************************************************)
(* GET /api/admin/recalcular-stats/:torneoId                               *)
(***************************************************************************)
\* stats[j.id] = {...j, puntos: 0, ...}: every field of the player kept,
\* the five counters at 0.
Reiniciados(ins) ==
    [id \in DOMAIN ins |->
        Set(ins[id], [puntos |-> 0, carambolas |-> 0, partidosJugados |-> 0,
                      victorias |-> 0, derrotas |-> 0])]

\* One turn of partidas.forEach on the counters st: a document whose two
\* players are not both enrolled, or whose scores are equal, adds nothing.
Procesada(st, p) ==
    LET id1 == p.jugador1
        id2 == p.jugador2
        score1 == OCero(p.puntaje1)
        score2 == OCero(p.puntaje2)
        gana(d, score) ==
            [d EXCEPT !.partidosJugados = @ + 1, !.carambolas = @ + score,
                      !.victorias = @ + 1, !.puntos = @ + 3]
        pierde(d, score) ==
            [d EXCEPT !.partidosJugados = @ + 1, !.carambolas = @ + score,
                      !.derrotas = @ + 1, !.puntos = @ + 1]
    IN  IF ~(id1 \in DOMAIN st /\ id2 \in DOMAIN st) \/ score1 = score2
        THEN st
        ELSE IF score1 > score2
        THEN [st EXCEPT ![id1] = gana(@, score1), ![id2] = pierde(@, score2)]
        ELSE [st EXCEPT ![id2] = gana(@, score2), ![id1] = pierde(@, score1)]

\* historialCollection.find({torneo_id}): the documents of the tournament.
DelTorneo(h) == {r \in h : ~EsWeb(r)}

RECURSIVE Procesadas(_, _)
\* partidas.forEach, in the order of insertion.
Procesadas(st, S) ==
    IF S = {} THEN st
    ELSE LET p == CHOOSE x \in S : \A y \in S : x._id <= y._id IN
         Procesadas(Procesada(st, p), S \ {p})

\* jugadoresActualizados; the order the handler gives them is not kept.
Recalculados(ins, h) == Procesadas(Reiniciados(ins), DelTorneo(h))

RecalcularStats ==
    IF reglas = SinTorneo
    THEN UNCHANGED vars
    ELSE /\ inscritos' = Recalculados(inscritos, historial)
         /\ ultima' = "recalcular-stats"
         /\ UNCHANGED <<tabla, historial, reloj, lectura>>

\* jugador1Id, jugador2Id and the scores of the matches to recalculate:
\* the two enrolled players in both orders, a win and an equal score.
ParejasInscritas == { <<"j1", "j2">>, <<"j2", "j1">> }

PuntajesJugados == { << <<"2">>, <<"1">> >>, << <<"1">>, <<"1">> >> }

NextRecalculo ==
    \/ \E e \in ParejasInscritas, m \in PuntajesJugados :
          RegistrarManual(e[1], e[2], m[1], m[2])
    \/ RecalcularStats

SpecRecalculo == Init /\ [][NextRecalculo]_vars

(***************************************************************************)
(* POST /agregar-jugador                                                   *)
(***************************************************************************)
\* telefono of the form: ten digits, and three digits.
TelefonosWeb ==
    { <<"0", "0", "0", "0", "0", "0", "0", "0", "0", "1">>,
      <<"1", "2", "3">> }

\* The page the route answers with; insertOne on an _id that exists is
\* refused by the store and the handler ends there.
RespuestaAgregar(t, nombre, telefono) ==
    IF Len(telefono) # 10 \/ IsNaN(telefono) THEN "telefono-invalido"
    ELSE IF nombre \in DOMAIN t THEN "id-duplicado"
    ELSE "jugador-registrado"

AgregarJugador(nombre, telefono) ==
    IF RespuestaAgregar(tabla, nombre, telefono) # "jugador-registrado"
    THEN UNCHANGED vars
    ELSE /\ tabla' = [k \in (DOMAIN tabla) \cup {nombre} |->
                        IF k = nombre
                        THEN [nombre |-> nombre, puntos |-> 0, ganadas |-> 0,
                              telefono |-> telefono]
                        ELSE tabla[k]]
         /\ ultima' = "agregar-jugador"
         /\ UNCHANGED <<historial, inscritos, reloj, lectura>>

\* The web routes that write the ledger, one request at a time.
NextJugadores ==
    \/ \E nombre \in Jugadores, telefono \in TelefonosWeb :
          AgregarJugador(nombre, telefono)
    \/ \E e \in Parejas, m \in Marcadores :
          RegistrarPartida(e[1], e[2], m[1], m[2])
    \/ Deshacer
    \/ \E ids \in ListasDeIds : EliminarMultiples(ids)

SpecJugadores == Init /\ [][NextJugadores]_vars

(***************************************************************************)
(* POST /api/auth/registro                                                 *)
(* Every await of the handler is one step: the look-up of the phone, the   *)
(* look-up of the activation key, the update that marks it used, the       *)
(* insert of the user and the insert of the ledger document.               *)
(***************************************************************************)
\* Users the collection is let grow to.
MaxUsuarios == 3

\* The phone the handler compares with to grant the role admin, written
\* here as a placeholder for the literal of the source.
MI_TELEFONO_ADMIN == "4430000000"

\* telefono of the body; "" is a body without it.
TelefonosRegistro == {"", "5530000001", "5530000002", MI_TELEFONO_ADMIN}

\* rolSeleccionado and claveActivacion of the body; "" is a body without
\* claveActivacion, "K9" a text no key document holds.
RolesSeleccionados == {"jugador", "organizador"}

ClavesEnviadas == {"", "K1", "K9"}

\* The collection claves after one key was generated and not yet used.
ClavesGeneradas == [c1 |-> [clave |-> "K1", usada |-> FALSE]]

\* The documents of usuariosCollection with the given phone.
UsuariosCon(telefono) == {u \in usuarios : u.telefono = telefono}

\* The ids of the documents findOne({clave, usada: false}) can return.
ClavesValidas(clave) ==
    {c \in DOMAIN claves : claves[c].clave = clave /\ ~claves[c].usada}

RegistrosDeUsuario == {r \in DOMAIN pet : pet[r].ruta = "registro"}

\* The handler up to its second await: the check of the body, findOne on
\* the phone, and the choice of the branch of the role.
LlegaRegistro(r, nombre, telefono, rolSeleccionado, claveActivacion) ==
    /\ r \notin DOMAIN pet
    /\ Cardinality(usuarios) + Cardinality(RegistrosDeUsuario) < MaxUsuarios
    /\ IF telefono = "" \/ nombre = "" \/ UsuariosCon(telefono) # {}
       THEN UNCHANGED vars
       ELSE IF telefono = MI_TELEFONO_ADMIN
       THEN /\ pet' = Poner(pet, r,
                        [ruta |-> "registro", paso |-> "usuario",
                         nombre |-> nombre, telefono |-> telefono,
                         rolFinal |-> "admin", claveActivacion |-> "",
                         claveValida |-> "", id |-> 0])
            /\ UNCHANGED <<tabla, historial, inscritos, reloj, ultima,
                           reglas, participaciones, respuesta,
                           torneo2, usuarios, claves>>
       ELSE IF rolSeleccionado = "organizador"
       THEN IF claveActivacion = ""
            THEN UNCHANGED vars
            ELSE /\ pet' = Poner(pet, r,
                             [ruta |-> "registro", paso |-> "clave",
                              nombre |-> nombre, telefono |-> telefono,
                              rolFinal |-> "jugador",
                              claveActivacion |-> claveActivacion,
                              claveValida |-> "", id |-> 0])
                 /\ UNCHANGED <<tabla, historial, inscritos, reloj, ultima,
                                reglas, participaciones, respuesta,
                                torneo2, usuarios, claves>>
       ELSE /\ pet' = Poner(pet, r,
                        [ruta |-> "registro", paso |-> "usuario",
                         nombre |-> nombre, telefono |-> telefono,
                         rolFinal |-> "jugador", claveActivacion |-> "",
                         claveValida |-> "", id |-> 0])
            /\ UNCHANGED <<tabla, historial, inscritos, reloj, ultima,
                           reglas, participaciones, respuesta,
                           torneo2, usuarios, claves>>

\* await db.collection('claves').findOne({clave, usada: false}); without a
\* document the handler answers 400 and ends.
BuscarClave(r) ==
    /\ EnCurso(r, "registro", "clave")
    /\ IF ClavesValidas(pet[r].claveActivacion) = {}
       THEN pet' = Quitar(pet, r)
       ELSE \E c \in ClavesValidas(pet[r].claveActivacion) :
               pet' = [pet EXCEPT ![r].paso = "quemar",
                                  ![r].claveValida = c]
    /\ UNCHANGED <<tabla, historial, inscritos, reloj, ultima, reglas,
                   participaciones, respuesta, torneo2, usuarios, claves>>

\* await db.collection('claves').updateOne({_id: claveValida._id},
\* {$set: {usada: true, usadaPor: telefono, ...}}); rolFinal = 'organizador'
QuemarClave(r) ==
    /\ EnCurso(r, "registro", "quemar")
    /\ claves' = [claves EXCEPT ![pet[r].claveValida] =
                     Set(@, [usada |-> TRUE, usadaPor |-> pet[r].telefono])]
    /\ pet' = [pet EXCEPT ![r].paso = "usuario",
                          ![r].rolFinal = "organizador"]
    /\ UNCHANGED <<tabla, historial, inscritos, reloj, ultima, reglas,
                   participaciones, respuesta, torneo2, usuarios>>

\* await bcrypt.hash(...) and await usuariosCollection.insertOne(nuevoUsuario);
\* the store gives the document the next id.  The hash of the password is
\* not kept in the model.
CrearUsuario(r) ==
    /\ EnCurso(r, "registro", "usuario")
    /\ usuarios' = usuarios \cup
          {[id |-> Cardinality(usuarios) + 1, nombre |-> pet[r].nombre,
            telefono |-> pet[r].telefono, rol |-> pet[r].rolFinal,
            activo |-> TRUE]}
    /\ pet' = [pet EXCEPT ![r].paso = "tabla",
                          ![r].id = Cardinality(usuarios) + 1]
    /\ UNCHANGED <<tabla, historial, inscritos, reloj, ultima, reglas,
                   participaciones, respuesta, torneo2, claves>>

\* await tablaCollection.insertOne({nombre, telefono, puntos: 0, ...}) and
\* the answer; the document gets an id of its own, written here as the id
\* of the user.
CrearTablaInicial(r) ==
    /\ EnCurso(r, "registro", "tabla")
    /\ tabla' = Poner(tabla, pet[r].id,
                      [nombre |-> pet[r].nombre, telefono |-> pet[r].telefono,
                       puntos |-> 0, ganadas |-> 0, partidasJugadas |-> 0,
                       rol |-> pet[r].rolFinal])
    /\ pet' = Quitar(pet, r)
    /\ ultima' = "registro"
    /\ UNCHANGED <<historial, inscritos, reloj, reglas, participaciones,
                   respuesta, torneo2, usuarios, claves>>

\* The collections when the first registration arrives: one key generated.
InitRegistro ==
    /\ reglas = ReglasCreadas(<<>>)
    /\ participaciones = <<>>
    /\ respuesta = SinRespuesta
    /\ torneo2 = Torneo2
    /\ pet = <<>>
    /\ usuarios = {}
    /\ claves = ClavesGeneradas
    /\ tabla = <<>>
    /\ historial = {}
    /\ inscritos = <<>>
    /\ reloj = 0
    /\ ultima = ""

NextRegistro ==
    \/ \E r \in Ranuras, telefono \in TelefonosRegistro,
          rolSeleccionado \in RolesSeleccionados,
          claveActivacion \in ClavesEnviadas :
          LlegaRegistro(r, "Nora", telefono, rolSeleccionado,
                        claveActivacion)
    \/ \E r \in Ranuras : BuscarClave(r)
    \/ \E r \in Ranuras : QuemarClave(r)
    \/ \E r \in Ranuras : CrearUsuario(r)
    \/ \E r \in Ranuras : CrearTablaInicial(r)

SpecRegistro == InitRegistro /\ [][NextRegistro]_vars

(***************************************************************************)
(* Reading the store in the claims.                                        *)
(***************************************************************************)
\* The two players a history document names.
Participantes(r) ==
    IF EsWeb(r) THEN {r.ganador, r.perdedor} ELSE {r.jugador1, r.jugador2}

PartidasEntre(h, a, b) == {r \in h : Participantes(r) = {a, b}}

\* A stat of player j in ledger t; a missing document or field reads 0.
Stat(t, j, f) ==
    IF j \in DOMAIN t /\ f \in DOMAIN t[j] THEN t[j][f] ELSE 0

Stats == {"puntos", "ganadas", "partidasJugadas", "totalCarambolas"}

\* The submitted score texts that pass the score check of the web route.
MarcadoresAceptados ==
    {m \in Marcadores : ~IsNaN(m[1]) /\ ~IsNaN(m[2])}

\* A text that is a non-negative integer: one or more decimal digits.
EsEnteroNoNegativo(s) == s # <<>> /\ LargoDigitos(s) = Len(s)

RECURSIVE SumaMarcadores(_, _)
\* The sum, over the documents of the finite set S, of the numeric value
\* of the score text stored in field f.
SumaMarcadores(S, f) ==
    IF S = {} THEN 0
    ELSE LET r == CHOOSE x \in S : TRUE IN
         Suma(ToNumber(r[f]), SumaMarcadores(S \ {r}, f))

(***************************************************************************)
(* C1. Rematch cap: no two distinct players ever have more than 2 history  *)
(* documents between them, and once they have 2 every further submission   *)
(* for the pair, in either order, is answered with the rematch-limit       *)
(* rejection.  Stated for both recording routes.                           *)
(***************************************************************************)
C1_TopeDeRevancha ==
    \A a \in Jugadores \cup Inscritos, b \in Jugadores \cup Inscritos :
        a # b =>
            /\ Cardinality(PartidasEntre(historial, a, b)) <= 2
            /\ Cardinality(PartidasEntre(historial, a, b)) = 2 =>
                  /\ {a, b} \subseteq Jugadores =>
                        \A m \in MarcadoresAceptados :
                            RespuestaPartida(historial, a, b, m[1], m[2])
                                = "limite-alcanzado"
                  /\ {a, b} \subseteq Inscritos =>
                        RespuestaManual(a, b) # "200-registrado"

\* The effect of one accepted submission e, m on the ledger and the history.
C2_Suma(e, m) ==
    LET g == e[1]
        p == e[2]
    IN  /\ {g, p} \subseteq DOMAIN tabla'
        /\ Stat(tabla', g, "puntos") = Suma(Stat(tabla, g, "puntos"), 3)
        /\ Stat(tabla', g, "ganadas") = Suma(Stat(tabla, g, "ganadas"), 1)
        /\ Stat(tabla', g, "partidasJugadas")
              = Suma(Stat(tabla, g, "partidasJugadas"), 1)
        /\ Stat(tabla', g, "totalCarambolas")
              = Suma(Stat(tabla, g, "totalCarambolas"), ToNumber(m[1]))
        /\ Stat(tabla', p, "puntos") = Suma(Stat(tabla, p, "puntos"), 1)
        /\ Stat(tabla', p, "ganadas") = Stat(tabla, p, "ganadas")
        /\ Stat(tabla', p, "partidasJugadas")
              = Suma(Stat(tabla, p, "partidasJugadas"), 1)
        /\ Stat(tabla', p, "totalCarambolas")
              = Suma(Stat(tabla, p, "totalCarambolas"), ToNumber(m[2]))
        /\ \A j \in (DOMAIN tabla') \ {g, p} :
              j \in DOMAIN tabla /\ tabla'[j] = tabla[j]
        /\ \E r \in historial' :
              /\ r \notin historial
              /\ historial' = historial \cup {r}
              /\ EsWeb(r)
              /\ r.ganador = g /\ r.perdedor = p
              /\ r.marcadorGanador = m[1] /\ r.marcadorPerdedor = m[2]

(***************************************************************************)
(* C2. A successful /registrar-partida adds 3 points, 1 win, 1 game and    *)
(* the winner's score to the winner, 1 point, 1 game and the loser's       *)
(* score to the loser (wins untouched), creating either document when      *)
(* missing, leaves every other player alone and adds exactly one history   *)
(* document holding both scores.  The score of a text is its numeric       *)
(* value, as the history document is read back.                            *)
(***************************************************************************)
C2_RegistroSuma ==
    [][\A e \in Parejas, m \in Marcadores :
          (/\ RespuestaPartida(historial, e[1], e[2], m[1], m[2]) = "registrada"
           /\ RegistrarPartida(e[1], e[2], m[1], m[2]))
          => C2_Suma(e, m)]_vars

(***************************************************************************)
(* C3. Round trip: in every state, for every submission the route would    *)
(* accept, recording it and undoing at once gives back the history and     *)
(* the four stats of both players.                                         *)
(***************************************************************************)
C3_IdaYVuelta ==
    \A e \in Parejas, m \in Marcadores :
        RespuestaPartida(historial, e[1], e[2], m[1], m[2]) = "registrada" =>
            LET ida == PartidaRegistrada(tabla, historial, reloj,
                                         e[1], e[2], m[1], m[2])
                vuelta == PartidaDeshecha(ida.tabla, ida.historial)
            IN  /\ vuelta.historial = historial
                /\ \A j \in {e[1], e[2]}, f \in Stats :
                      Stat(vuelta.tabla, j, f) = Stat(tabla, j, f)

\* The history documents player j won, and those j lost.
Ganadas(h, j) == {r \in h : EsWeb(r) /\ r.ganador = j}

Perdidas(h, j) == {r \in h : EsWeb(r) /\ r.perdedor = j}

\* The stats of player j folded from history h.
Plegado(h, j) ==
    [puntos |-> 3 * Cardinality(Ganadas(h, j)) + Cardinality(Perdidas(h, j)),
     ganadas |-> Cardinality(Ganadas(h, j)),
     partidasJugadas |-> Cardinality(Ganadas(h, j)) + Cardinality(Perdidas(h, j)),
     totalCarambolas |-> Suma(SumaMarcadores(Ganadas(h, j), "marcadorGanador"),
                              SumaMarcadores(Perdidas(h, j), "marcadorPerdedor"))]

(***************************************************************************)
(* C4. Lockstep: every ledger document equals the fold over the history    *)
(* documents naming its player: games = documents naming the player, wins  *)
(* = documents won, points = 3 per win and 1 per loss, score units = sum   *)
(* of the player's stored scores.                                          *)
(***************************************************************************)
C4_LibroIgualAHistorial ==
    \A j \in DOMAIN tabla, f \in Stats :
        Stat(tabla, j, f) = Plegado(historial, j)[f]

(***************************************************************************)
(* C5. Self-match, as claimed: a submission with equal identities is       *)
(* always answered with the self-match error, on both recording routes,    *)
(* and every history document names two different players.                 *)
(***************************************************************************)
C5_SiempreMismoJugador ==
    /\ \A r \in historial : Cardinality(Participantes(r)) = 2
    /\ \A j \in Jugadores, m \in Marcadores :
          RespuestaPartida(historial, j, j, m[1], m[2]) = "mismo-jugador"
    /\ \A j \in Inscritos : RespuestaManual(j, j) = "400-mismo-jugador"

\* The two halves of the amended C5: the answer, and the frame of the step.
C5_RespuestaMismoJugador ==
    /\ \A r \in historial : Cardinality(Participantes(r)) = 2
    /\ \A j \in Jugadores, m \in Marcadores :
          RespuestaPartida(historial, j, j, m[1], m[2]) =
              IF m \in MarcadoresAceptados THEN "mismo-jugador"
              ELSE "marcador-invalido"
    /\ \A j \in Inscritos : RespuestaManual(j, j) = "400-mismo-jugador"

C5_MismoJugadorSinCambio ==
    /\ \A j \in Jugadores, m \in Marcadores :
          RegistrarPartida(j, j, m[1], m[2])
              => UNCHANGED <<tabla, historial, inscritos>>
    /\ \A j \in Inscritos, m \in Puntajes :
          RegistrarManual(j, j, m[1], m[2])
              => UNCHANGED <<tabla, historial, inscritos>>

(***************************************************************************)
(* C5, amended.  A submission with equal identities always fails and       *)
(* changes neither the ledger nor the history: /registrar-partida answers  *)
(* with the invalid-score error when its score check rejects a score and   *)
(* with the self-match error otherwise, the API route always answers with  *)
(* the self-match error; every history document names two different        *)
(* players.                                                                *)
(***************************************************************************)
C5_MismoJugadorRechazado ==
    [] C5_RespuestaMismoJugador /\ [][C5_MismoJugadorSinCambio]_vars

\* Matches are on record, and in that state the self-match of a player in
\* the ledger is answered with one error or the other by its scores.
C5_Testigo ==
    /\ "Ana" \in DOMAIN tabla
    /\ \E r \in historial : EsWeb(r) /\ "Ana" \in Participantes(r)
    /\ RespuestaPartida(historial, "Ana", "Ana", <<"3", "0">>, <<"1", "2">>)
          = "mismo-jugador"
    /\ RespuestaPartida(historial, "Ana", "Ana", <<"a", "b", "c">>, <<"1", "2">>)
          = "marcador-invalido"
    /\ \E r \in historial : ~EsWeb(r)
    /\ RespuestaManual("j1", "j1") = "400-mismo-jugador"

\* The answer by the first failing check in the order C6 states, and the
\* frame of a rejected submission.
C6_PrimerFallo(h, g, p, m) ==
    IF m \notin MarcadoresAceptados THEN "marcador-invalido"
    ELSE IF g = p THEN "mismo-jugador"
    ELSE IF Cardinality(PartidasEntre({r \in h : EsWeb(r)}, g, p)) >= 2
         THEN "limite-alcanzado"
    ELSE "registrada"

C6_Orden ==
    \A g \in Jugadores, p \in Jugadores, m \in Marcadores :
        RespuestaPartida(historial, g, p, m[1], m[2])
            = C6_PrimerFallo(historial, g, p, m)

C6_Marco ==
    \A e \in Parejas, m \in Marcadores :
        (/\ C6_PrimerFallo(historial, e[1], e[2], m) # "registrada"
         /\ RegistrarPartida(e[1], e[2], m[1], m[2]))
        => UNCHANGED <<tabla, historial, inscritos>>

C7_SoloEnterosNoNegativos ==
    \A r \in historial :
        EsWeb(r) =>
            /\ EsEnteroNoNegativo(r.marcadorGanador)
            /\ EsEnteroNoNegativo(r.marcadorPerdedor)
            /\ ParseInt(r.marcadorGanador) = ToNumber(r.marcadorGanador)
            /\ ParseInt(r.marcadorPerdedor) = ToNumber(r.marcadorPerdedor)

\* The ledger t2 is t1 less the contribution of the documents S.
MenosAporte(t1, t2, S) ==
    /\ DOMAIN t2 = DOMAIN t1
    /\ \A j \in DOMAIN t1, f \in Stats :
          Stat(t2, j, f) = Suma(Stat(t1, j, f), Neg(Plegado(S, j)[f]))

\* A step of /deshacer.
C8_Paso ==
    Deshacer =>
        IF historial = {}
        THEN UNCHANGED <<tabla, historial, inscritos>>
        ELSE \E r \in historial :
                /\ \A o \in historial : o.fecha <= r.fecha
                /\ historial' = historial \ {r}
                /\ MenosAporte(tabla, tabla', {r})
                /\ UNCHANGED inscritos

(***************************************************************************)
(* C8. /deshacer removes exactly the history document with the greatest    *)
(* fecha of the whole history and takes exactly that document's            *)
(* contribution off the ledger; on an empty history it changes nothing.    *)
(***************************************************************************)
C8_DeshacerUltima == [][C8_Paso]_vars

\* Two matches were recorded and /deshacer left the first one.
C8_Testigo ==
    /\ ultima = "deshacer"
    /\ reloj = 2
    /\ Cardinality(historial) = 1
    /\ \A r \in historial : r.fecha = 1

\* A step of /eliminar-multiples that deleted the documents S.
C9_Paso ==
    LET S == historial \ historial' IN
    (ultima' = "eliminar-multiples" /\ historial' # historial) =>
        /\ historial' \subseteq historial
        /\ MenosAporte(tabla, tabla', S)
        /\ \A j \in DOMAIN tabla :
              Stat(tabla', j, "partidasJugadas")
                  = Suma(Stat(tabla, j, "partidasJugadas"),
                         0 - Cardinality({r \in S : EsWeb(r) /\ j \in Participantes(r)}))
        /\ UNCHANGED inscritos

(***************************************************************************)
(* C9. A request of /eliminar-multiples that deletes the documents S takes *)
(* off every ledger document exactly the contribution of S computed from   *)
(* the scores stored in S (one game per document, 3 points and one win per *)
(* document won, 1 point per document lost, the stored scores), and deletes*)
(* nothing else.                                                           *)
(***************************************************************************)
C9_BorradoResta == [][C9_Paso]_vars

\* Ana played three matches and one request deleted her two against Beto:
\* the match against Caro is what the ledger still counts.
C9_Testigo ==
    /\ ultima = "eliminar-multiples"
    /\ reloj = 3
    /\ \A r \in historial : EsWeb(r)
    /\ Cardinality(historial) = 1
    /\ \A r \in historial : Participantes(r) = {"Ana", "Caro"}
    /\ \A j \in Inscritos : inscritos[j].partidosJugados = 0
    /\ "Beto" \in DOMAIN tabla
    /\ Stat(tabla, "Beto", "partidasJugadas") = 0
    /\ Stat(tabla, "Ana", "partidasJugadas") = 1
    /\ Stat(tabla, "Ana", "puntos") = 3

\* The count the page shows against the documents the step deleted.
C10_Paso ==
    \A ids \in ListasDeIds :
        (ids # <<>> /\ EliminarMultiples(ids)) =>
            Reportados(ids) = Cardinality(historial \ historial')

(***************************************************************************)
(* C10. The page of /eliminar-multiples reports the number of documents    *)
(* the request reversed: the count it shows equals the number of history   *)
(* documents the request deleted, ids that name no document (or come       *)
(* twice) being skipped and left out of it.                                *)
(***************************************************************************)
C10_InformeDeBorrado == [][C10_Paso]_vars

\* A step of /deshacer or /eliminar-multiples that deleted the documents S.
C11_Paso ==
    LET S == historial \ historial' IN
    (ultima' \in {"deshacer", "eliminar-multiples"} /\ S # {}) =>
        /\ historial' \subseteq historial
        /\ DOMAIN tabla' = DOMAIN tabla
        /\ MenosAporte(tabla, tabla', S)

\* /deshacer on a history that is not empty deletes a document, whatever
\* the ledger holds.
C11_NoFalla ==
    historial # {} => ENABLED (Deshacer /\ historial' # historial)

(***************************************************************************)
(* C11. When a reversed history document names a player that has no ledger *)
(* document, the reversal still goes through: no ledger document is        *)
(* created for that player, the ledger documents that exist lose exactly   *)
(* the document's contribution, and the history document is deleted.       *)
(***************************************************************************)
C11_JugadorAusente == [] C11_NoFalla /\ [][C11_Paso]_vars

\* Ana beat Beto, Beto's ledger document was lost, and /deshacer took the
\* match back: Ana is at zero again and Beto still has no document.
C11_Testigo ==
    /\ ultima = "deshacer"
    /\ reloj = 1
    /\ historial = {}
    /\ DOMAIN tabla = {"Ana"}
    /\ Stat(tabla, "Ana", "puntos") = 0
    /\ Stat(tabla, "Ana", "partidasJugadas") = 0

\* The history documents of S written by the API route that name the
\* enrolled player j, and those of them j won.
ManualesDe(S, j) == {r \in S : ~EsWeb(r) /\ j \in Participantes(r)}

ManualesGanadasPor(S, j) == {r \in ManualesDe(S, j) : r.ganadorId = j}

\* A step that deleted the history documents S.
C12_Paso ==
    LET S == historial \ historial' IN
    S # {} =>
        /\ MenosAporte(tabla, tabla', S)
        /\ \A j \in DOMAIN inscritos :
              /\ inscritos'[j].partidosJugados =
                    inscritos[j].partidosJugados - Cardinality(ManualesDe(S, j))
              /\ inscritos'[j].victorias =
                    inscritos[j].victorias - Cardinality(ManualesGanadasPor(S, j))

(***************************************************************************)
(* C12. Every step that deletes history documents, written by the web      *)
(* route or by the API route, takes their contribution off both players    *)
(* they name in the same step: off the ledger for the web documents, off   *)
(* the enrolled players' stats for the API documents.                      *)
(***************************************************************************)
C12_BorradoConAjuste == [][C12_Paso]_vars

\* The rows of the last answer, none before the first request.
Filas == IF respuesta.estado = 200 THEN respuesta.ranking ELSE <<>>

\* The positions of the rows in each tier, by the tags of the answer.
Clasificados == {k \in 1..Len(Filas) : Filas[k].esClasificado}

Reemplazos == {k \in 1..Len(Filas) : Filas[k].esReemplazo}

Sobrantes ==
    {k \in 1..Len(Filas) : ~Filas[k].esClasificado /\ ~Filas[k].esReemplazo}

C14_SoloElegiblesEnCupos ==
    respuesta.estado = 200 =>
        \A k \in Clasificados \cup Reemplazos :
            CampoOCero(Filas[k].stats, "partidasJugadas")
                >= respuesta.reglas.limite

\* Rows i and k are in the same tier and on the same side of the threshold.
MismoGrupo(i, k) ==
    /\ Filas[i].esClasificado = Filas[k].esClasificado
    /\ Filas[i].esReemplazo = Filas[k].esReemplazo
    /\ (CampoOCero(Filas[i].stats, "partidasJugadas") >= respuesta.reglas.limite)
          = (CampoOCero(Filas[k].stats, "partidasJugadas") >= respuesta.reglas.limite)

\* The place of a row's player in the list the route read.
Entrada(k) ==
    CHOOSE i \in 1..Len(participaciones) :
        participaciones[i].nombre_display = Filas[k].nombre

\* Row i may precede row k: more points, or as many and more wins, or as
\* many of both and earlier in the input; an absent field counts 0.
Precede(i, k) ==
    LET pi == CampoOCero(Filas[i].stats, "puntos")
        pk == CampoOCero(Filas[k].stats, "puntos")
        gi == CampoOCero(Filas[i].stats, "ganadas")
        gk == CampoOCero(Filas[k].stats, "ganadas")
    IN  \/ pi > pk
        \/ pi = pk /\ gi > gk
        \/ pi = pk /\ gi = gk /\ Entrada(i) < Entrada(k)

(***************************************************************************)
(* C15. Within each tier the rows are in the order points descending,      *)
(* then wins descending, then input order, an absent points or wins field  *)
(* counting as 0.  Rows are compared only when they are in the same tier   *)
(* and on the same side of the threshold, which is where the route sorts.  *)
(***************************************************************************)
C15_OrdenEnCadaGrupo ==
    respuesta.estado = 200 =>
        \A i \in 1..Len(Filas), k \in 1..Len(Filas) :
            (i < k /\ MismoGrupo(i, k)) => Precede(i, k)

\* The row's player has the games the answer's threshold asks for.
FilaElegible(k) ==
    CampoOCero(Filas[k].stats, "partidasJugadas") >= respuesta.reglas.limite

\* The rows of the Remainder: the eligible players after the first
\* corte + rep of them, and every ineligible player.
Resto ==
    {k \in 1..Len(Filas) :
        \/ ~FilaElegible(k)
        \/ Cardinality({i \in 1..k : FilaElegible(i)})
              > respuesta.reglas.corteReemplazos}

(***************************************************************************)
(* C16. The Remainder, the eligible players beyond the slots together with *)
(* all ineligible players, is sorted as one group: in it no player with    *)
(* fewer points precedes a player with more points.                        *)
(***************************************************************************)
C16_RestoOrdenado ==
    respuesta.estado = 200 =>
        \A i \in Resto, k \in Resto :
            i < k => CampoOCero(Filas[i].stats, "puntos")
                        >= CampoOCero(Filas[k].stats, "puntos")

(***************************************************************************)
(* C17. The ranking uses the threshold and the slot counts exactly as the  *)
(* tournament stores them, 0 included: the rules the answer reports are    *)
(* the stored ones, and every player with at least the stored threshold    *)
(* of games is on the eligible side of the threshold in use (every player, *)
(* when the stored threshold is 0).                                        *)
(***************************************************************************)
C17_ReglasComoGuardadas ==
    respuesta.estado = 200 =>
        /\ "limite_partidas" \in DOMAIN reglas =>
              /\ respuesta.reglas.limite = reglas.limite_partidas
              /\ \A k \in 1..Len(Filas) :
                    CampoOCero(Filas[k].stats, "partidasJugadas")
                        >= reglas.limite_partidas => FilaElegible(k)
        /\ "top_clasificados" \in DOMAIN reglas =>
              respuesta.reglas.corte = reglas.top_clasificados
        /\ {"top_clasificados", "reemplazos"} \subseteq DOMAIN reglas =>
              respuesta.reglas.corteReemplazos
                  = reglas.top_clasificados + reglas.reemplazos

\* The answer lists the enrolled player j with the stats the recorder left.
ListadoConStats(resp, j) ==
    /\ resp.estado = 200
    /\ \E k \in 1..Len(resp.ranking) :
          /\ resp.ranking[k].nombre = inscritos[j].nombre
          /\ CampoOCero(resp.ranking[k].stats, "puntos") = inscritos[j].puntos
          /\ CampoOCero(resp.ranking[k].stats, "partidasJugadas")
                = inscritos[j].partidosJugados
          /\ CampoOCero(resp.ranking[k].stats, "ganadas") = inscritos[j].victorias

\* A ranking request.
C18_Paso ==
    TablaTorneo =>
        \A j \in DOMAIN inscritos :
            inscritos[j].partidosJugados > 0 => ListadoConStats(respuesta', j)

(***************************************************************************)
(* C18. The ranking reads the ledger the recorder writes: a ranking        *)
(* request made after matches were registered for enrolled players lists   *)
(* each of them with the points, games and wins the recorder gave them.    *)
(***************************************************************************)
C18_RankingLeeAlRegistrador == [][C18_Paso]_vars

\* A step of the API recorder that stored a match won by one player.
C19_Paso ==
    \A e \in ParejasApi, m \in Puntajes :
        (/\ RegistrarManual(e[1], e[2], m[1], m[2])
         /\ historial' # historial
         /\ {e[1], e[2]} \subseteq DOMAIN inscritos) =>
            \E r \in historial' \ historial :
                \A j \in {e[1], e[2]} :
                    inscritos'[j].puntos = inscritos[j].puntos +
                        (IF r.ganadorId = j THEN reglas.puntos_ganar
                         ELSE reglas.puntos_perder)

(***************************************************************************)
(* C19. A match recorded in a tournament gives the winner the win-points   *)
(* and the loser the loss-points stored in the tournament's rules.         *)
(***************************************************************************)
C19_PuntosConfigurados == [][C19_Paso]_vars

\* The creation of a tournament without rule values.
C20_Paso ==
    CrearTorneo(<<>>) =>
        /\ reglas'.puntos_ganar = 3
        /\ reglas'.puntos_perder = 1
        /\ Limite(reglas') = 32
        /\ Corte(reglas') = 8
        /\ Rep(reglas') = 2

(***************************************************************************)
(* C20. A tournament created without explicit rule values has win-points   *)
(* 3 and loss-points 1 in its rules, and its ranking works with threshold  *)
(* 32, 8 top slots and 2 replacement slots.                                *)
(***************************************************************************)
C20_ReglasPorDefecto == [][C20_Paso]_vars

\* The rule fields /api/torneos/editar-reglas may write.
Editables == {"minimoPartidasPorcentaje", "top_clasificados"}

\* rg2 is rg in every field outside Editables.
SoloEditables(rg, rg2) ==
    /\ (DOMAIN rg2) \ Editables = (DOMAIN rg) \ Editables
    /\ \A f \in (DOMAIN rg) \ Editables : rg2[f] = rg[f]

\* A request to editar-reglas, whatever its role, tournament and body.
C21_Paso ==
    \A rol \in Roles, torneoId \in TorneoIds, body \in CuerposEditar :
        EditarReglas(rol, torneoId, body) =>
            /\ SoloEditables(reglas, reglas')
            /\ SoloEditables(torneo2.reglas, torneo2'.reglas)
            /\ torneo2'.jugadores_inscritos = torneo2.jugadores_inscritos
            /\ torneoId = "t1" => torneo2' = torneo2
            /\ torneoId = "t2" => reglas' = reglas
            /\ UNCHANGED <<inscritos, tabla, historial, participaciones>>

(***************************************************************************)
(* C21. A request to the rules override changes at most the threshold      *)
(* field and the qualification slots of the rules of the tournament it     *)
(* names: the other rule fields, the enrolled players with their stats     *)
(* and the other tournament stay as they were, for every body.             *)
(***************************************************************************)
C21_SoloUmbralYCupos == [][C21_Paso]_vars

\* Both fields of a tournament with a played match were overridden.
C21_Testigo ==
    /\ reglas # SinTorneo
    /\ "minimoPartidasPorcentaje" \in DOMAIN reglas
    /\ reglas.minimoPartidasPorcentaje = 50
    /\ reglas.top_clasificados = NaN
    /\ reglas.puntos_ganar = 2
    /\ \E j \in DOMAIN inscritos : inscritos[j].puntos > 0
    /\ torneo2 = Torneo2

\* What request r, in flight on /registrar-partida, has added to stat f of
\* player j so far.
AplicadoPor(r, j, f) ==
    LET q == pet[r]
        g == IF q.ganador = j /\ q.paso \in {"perdedor", "historial"}
             THEN Stat([x \in {j} |-> IncGanador(q.mar1)], j, f) ELSE 0
        p == IF q.perdedor = j /\ q.paso = "historial"
             THEN Stat([x \in {j} |-> IncPerdedor(q.mar2)], j, f) ELSE 0
    IN  Suma(g, p)

RECURSIVE Aplicado(_, _, _)
Aplicado(R, j, f) ==
    IF R = {} THEN 0
    ELSE LET r == CHOOSE x \in R : TRUE IN
         Suma(AplicadoPor(r, j, f), Aplicado(R \ {r}, j, f))

(***************************************************************************)
(* C22. No lost update: under every interleaving of two submissions to     *)
(* /registrar-partida, each stat of each player is the sum of what the     *)
(* recorded matches gave the player and of the increments the requests in  *)
(* flight have made so far; at the end it is the sum of the increments of  *)
(* both requests.                                                          *)
(***************************************************************************)
C22_SinActualizacionPerdida ==
    \A j \in Jugadores, f \in Stats :
        Stat(tabla, j, f) =
            Suma(Plegado(historial, j)[f], Aplicado(RegistrosEnCurso, j, f))

\* Two requests, one won by each player, have made all their increments
\* on the same two ledger documents and neither has inserted yet.
C22_Testigo ==
    /\ \A r \in Ranuras : EnCurso(r, "registrar-partida", "historial")
    /\ pet[1].ganador = pet[2].perdedor
    /\ historial = {}
    /\ Stat(tabla, "Ana", "partidasJugadas") = 2
    /\ Stat(tabla, "Ana", "puntos") = 4
    /\ Stat(tabla, "Ana", "totalCarambolas") = 42

\* A request that passed the count goes on to its insert whatever the
\* count has become.
C23_SinSegundaCuenta ==
    \A r \in Ranuras :
        EnCurso(r, "registrar-partida", "historial") =>
            ENABLED GuardarHistorial(r)

(***************************************************************************)
(* C23. The rematch cap is check-then-act: the count is compared to 2 only *)
(* before the first write, so with one document of the pair in the history *)
(* two concurrent submissions both pass it and both insert, which gives 3  *)
(* documents for the pair; two requests in flight never give more than 3.  *)
(***************************************************************************)
C23_TopeNoAtomico ==
    /\ C23_SinSegundaCuenta
    /\ Cardinality(PartidasEntre(historial, "Ana", "Beto")) <= 3

\* Three documents for the pair.
C23_Testigo ==
    /\ Cardinality(PartidasEntre(historial, "Ana", "Beto")) = 3
    /\ pet = <<>>

\* What stat f of player j holds beyond what the history and the requests
\* in flight account for.
Exceso(j, f) ==
    Stat(tabla, j, f)
        - Suma(Plegado(historial, j)[f], Aplicado(RegistrosEnCurso, j, f))

\* A store operation of a recording handler fails.
C24_Paso ==
    \A r \in Ranuras :
        Falla(r) =>
            /\ UNCHANGED <<tabla, historial, inscritos>>
            /\ pet[r].ruta = "registrar-partida" =>
                  \A j \in Jugadores, f \in Stats :
                      Exceso(j, f)' = Exceso(j, f) + AplicadoPor(r, j, f)
            /\ pet[r].ruta = "registrar-manual" =>
                  pet[r].partida \in historial'

(***************************************************************************)
(* C24. No rollback: when a store operation of a recording request fails,  *)
(* the writes the request already made stay.  After a failure of           *)
(* /registrar-partida behind the winner's update, the winner's increments  *)
(* remain in the ledger with no history document and no request in flight  *)
(* to account for them; after a failure of the API recorder the history    *)
(* document stays while the players lack their increments.                 *)
(***************************************************************************)
C24_SinReversion == [][C24_Paso]_vars

\* The winner's update was made, the loser's failed: the ledger has the
\* winner's 3 points and the history has no document.
C24_Testigo ==
    /\ \E r \in DOMAIN pet : pet[r].paso = "fallo"
    /\ \A r \in DOMAIN pet : pet[r].paso = "fallo"
    /\ historial = {}
    /\ Stat(tabla, "Ana", "puntos") = 3
    /\ "Beto" \notin DOMAIN tabla

(***************************************************************************)
(* C26. Each history document is reversed at most once, under every        *)
(* interleaving of /deshacer and /eliminar-multiples requests: once no     *)
(* request is in flight, every ledger document is the fold of the history  *)
(* that is left, so each deleted document was subtracted exactly once.     *)
(***************************************************************************)
C26_UnaSolaReversion ==
    pet = <<>> =>
        \A j \in DOMAIN tabla, f \in Stats :
            Stat(tabla, j, f) = Plegado(historial, j)[f]

\* A field of an enrolled player; a field the document lacks reads 0.
DeInscrito(j, f) ==
    IF f \in DOMAIN inscritos[j] THEN inscritos[j][f] ELSE 0

(***************************************************************************)
(* C25. For every enrolled player of the tournament, games played equal    *)
(* wins plus losses, after any sequence of enrolments, registered matches  *)
(* and data migrations.                                                    *)
(***************************************************************************)
C25_JugadosIgualASuma ==
    \A j \in DOMAIN inscritos :
        DeInscrito(j, "partidosJugados")
            = DeInscrito(j, "victorias") + DeInscrito(j, "derrotas")

(***************************************************************************)
(* C30. Enrolment uniqueness: in every reachable state the list of         *)
(* enrolled players of the tournament has no two entries with the same     *)
(* telefono, whatever the sequence of enrolments and data migrations.      *)
(***************************************************************************)
C30_TelefonosUnicos ==
    \A a \in DOMAIN inscritos, b \in DOMAIN inscritos :
        a # b => inscritos[a].telefono # inscritos[b].telefono

\* What the recorder makes of the stats ins with the document p.
Anotada(ins, p) ==
    ActualizarJugador(
        ActualizarJugador(ins, p.jugador1, PuntosDe(p, p.jugador1),
                          p.puntaje1, p.ganadorId = p.jugador1),
        p.jugador2, PuntosDe(p, p.jugador2), p.puntaje2,
        p.ganadorId = p.jugador2)

RECURSIVE Anotadas(_, _)
\* The stats the recorder maintains from ins over the documents S, in the
\* order of insertion.
Anotadas(ins, S) ==
    IF S = {} THEN ins
    ELSE LET p == CHOOSE x \in S : \A y \in S : x._id <= y._id IN
         Anotadas(Anotada(ins, p), S \ {p})

\* Every player at zero stats.
EnCero == [j \in DOMAIN inscritos |->
             [puntos |-> 0, partidosJugados |-> 0, victorias |-> 0,
              derrotas |-> 0, carambolas |-> 0]]

(***************************************************************************)
(* C28. Recalculation agrees with recording: when the stats of the         *)
(* enrolled players are the ones the recorder has maintained from zero     *)
(* over the matches of the history, recalculating from the history gives   *)
(* the same stats for every player; and recalculating what was             *)
(* recalculated changes nothing.                                           *)
(***************************************************************************)
C28_RecalculoIgualAIncremental ==
    /\ inscritos = Anotadas(EnCero, DelTorneo(historial)) =>
          Recalculados(inscritos, historial) = inscritos
    /\ Recalculados(Recalculados(inscritos, historial), historial)
          = Recalculados(inscritos, historial)

(***************************************************************************)
(* C27. After any sequence of /agregar-jugador, /registrar-partida,        *)
(* /deshacer and /eliminar-multiples requests, one at a time, the points,  *)
(* wins, games and score units of every ledger document are numbers not    *)
(* below 0.                                                                *)
(***************************************************************************)
C27_ContadoresNoNegativos ==
    \A j \in DOMAIN tabla, f \in Stats :
        Stat(tabla, j, f) # NaN => Stat(tabla, j, f) >= 0

(***************************************************************************)
(* C29.  An activation key is single-use: over any sequence or             *)
(* interleaving of registration requests at most one user obtains the      *)
(* role organizador from a given key, so there are never more users with   *)
(* that role than keys marked used; and a key is marked used only if a     *)
(* user was created with it, so once no request is in flight the phone     *)
(* in usadaPor of a used key is the phone of a user with that role.        *)
(***************************************************************************)
Organizadores == {u \in usuarios : u.rol = "organizador"}

ClavesUsadas == {c \in DOMAIN claves : claves[c].usada}

C29_ClaveDeUnSoloUso ==
    /\ Cardinality(Organizadores) <= Cardinality(ClavesUsadas)
    /\ RegistrosDeUsuario = {} =>
          \A c \in ClavesUsadas :
             \E u \in Organizadores : u.telefono = claves[c].usadaPor

====
